---- MODULE Spec2Model ----
(***************************************************************************)
(* Registration backend: the POST /api/customers workflow (validation,     *)
(* persistence, confirmation email, response) and the lookup by phone      *)
(* number, in the three variants of the repository: no email               *)
(* (src/unnamed/part_000), SendGrid (src/index.js:1-155) and Nodemailer    *)
(* (src/index.js:156-307).                                                 *)
(*                                                                         *)
(* A string is a sequence of one-character strings.  A value of a JSON     *)
(* body is a record [t, s, n]: t is the JavaScript type, s the characters  *)
(* of a string, n the value of a number.  deviceInfo is optional, opaque   *)
(* and read by no condition of the code; it is left out of the bodies.     *)
(***************************************************************************)
EXTENDS Naturals, Sequences, FiniteSets

VARIABLES variant, store, req, input, result

vars == << variant, store, req, input, result >>

-----------------------------------------------------------------------------
(* Bounds of the model *)

\* number of HTTP requests (registrations and lookups together) in a run
MaxReqs == 2
\* longest email string enumerated symbol by symbol for the validation rules
MaxEmailLen == 5

(* Program constants *)

\* /^\d{10}$/
PhoneDigits == 10
\* password.length < 6
MinPasswordLength == 6

-----------------------------------------------------------------------------
(* JavaScript values *)

Undefined == [t |-> "undefined", s |-> << >>, n |-> 0]
JStr(s) == [t |-> "string", s |-> s, n |-> 0]
JNum(n) == [t |-> "number", s |-> << >>, n |-> n]

Rep(c, k) == [i \in 1..k |-> c]

Digit == {"0", "1", "2", "3", "4", "5", "6", "7", "8", "9"}
DigitChars == << "0", "1", "2", "3", "4", "5", "6", "7", "8", "9" >>

RECURSIVE NumToString(_)
NumToString(n) ==
    IF n < 10 THEN << DigitChars[n + 1] >>
    ELSE Append(NumToString(n \div 10), DigitChars[(n % 10) + 1])

DigitValue(c) == CHOOSE d \in 0..9 : DigitChars[d + 1] = c

RECURSIVE StringToNum(_)
StringToNum(s) ==
    IF Len(s) = 0 THEN 0
    ELSE 10 * StringToNum(SubSeq(s, 1, Len(s) - 1)) + DigitValue(s[Len(s)])

\* a faulty Falsy: a test of presence, which lets the number 0 through
FalsyNotZero(v) ==
    \/ v.t = "undefined"
    \/ v.t = "string" /\ v.s = << >>

\* !v : the empty string, 0 and undefined are falsy
Falsy(v) ==
    \/ v.t = "undefined"
    \/ v.t = "string" /\ v.s = << >>
    \/ v.t = "number" /\ v.n = 0

\* String(v), the coercion RegExp.prototype.test applies to its argument
ToString(v) ==
    CASE v.t = "string" -> v.s
      [] v.t = "number" -> NumToString(v.n)
      [] OTHER -> << "u", "n", "d", "e", "f", "i", "n", "e", "d" >>

\* a !== b
StrictNotEqual(a, b) == a.t # b.t \/ a.s # b.s \/ a.n # b.n

\* v.length < 6 : only a string has a length; undefined < 6 is false
LengthBelow(v, k) == v.t = "string" /\ Len(v.s) < k

-----------------------------------------------------------------------------
(* Validation rules of POST /api/customers *)

\* [^\s@]+ over s[i..j]
PlainRun(s, i, j) == i <= j /\ \A k \in i..j : s[k] \notin {" ", "@"}

\* /^[^\s@]+@[^\s@]+\.[^\s@]+$/.test(s)
EmailRegex(s) ==
    \E a \in 1..Len(s) : \E d \in 1..Len(s) :
        /\ s[a] = "@"
        /\ s[d] = "."
        /\ PlainRun(s, 1, a - 1)
        /\ PlainRun(s, a + 1, d - 1)
        /\ PlainRun(s, d + 1, Len(s))

\* /^\d{10}$/.test(s)
PhoneRegex(s) == Len(s) = PhoneDigits /\ \A k \in 1..Len(s) : s[k] \in Digit

MissingFields == "All fields are required"
InvalidEmail == "Invalid email format"
InvalidPhone == "Phone number must be 10 digits"
PasswordMismatch == "Passwords do not match"
PasswordTooShort == "Password must be at least 6 characters"
Valid == "valid"

RequiredFieldMissing(b) ==
    \/ Falsy(b.fullName) \/ Falsy(b.email) \/ Falsy(b.phoneNumber)
    \/ Falsy(b.gender) \/ Falsy(b.dateOfBirth) \/ Falsy(b.address)
    \/ Falsy(b.password) \/ Falsy(b.latitude) \/ Falsy(b.longitude)

\* a faulty Validate: the length rule ahead of the confirmation rule
ValidateLengthFirst(b) ==
    IF RequiredFieldMissing(b) THEN MissingFields
    ELSE IF ~EmailRegex(ToString(b.email)) THEN InvalidEmail
    ELSE IF ~PhoneRegex(ToString(b.phoneNumber)) THEN InvalidPhone
    ELSE IF LengthBelow(b.password, MinPasswordLength) THEN PasswordTooShort
    ELSE IF StrictNotEqual(b.password, b.confirmPassword) THEN PasswordMismatch
    ELSE Valid

\* the validations of the handler, each an early return, in the code's order
Validate(b) ==
    IF RequiredFieldMissing(b) THEN MissingFields
    ELSE IF ~EmailRegex(ToString(b.email)) THEN InvalidEmail
    ELSE IF ~PhoneRegex(ToString(b.phoneNumber)) THEN InvalidPhone
    ELSE IF StrictNotEqual(b.password, b.confirmPassword) THEN PasswordMismatch
    ELSE IF LengthBelow(b.password, MinPasswordLength) THEN PasswordTooShort
    ELSE Valid

-----------------------------------------------------------------------------
(* customerSchema: the casts and the required-validators of mongoose *)

AllDigits(s) == Len(s) > 0 /\ \A k \in 1..Len(s) : s[k] \in Digit

\* a path of type String: a string is kept, a number is written out
CastString(v) == ToString(v)

\* a path of type Number: a number is kept, a numeric string is parsed,
\* any other string is a CastError
CanCastNumber(v) == v.t = "number" \/ (v.t = "string" /\ AllDigits(v.s))
CastNumber(v) ==
    IF v.t = "number" THEN v.n
    ELSE IF v.t = "string" /\ AllDigits(v.s) THEN StringToNum(v.s)
    ELSE 0

\* new Customer({...}) : the document as the schema casts it
NewCustomer(b) ==
    [fullName    |-> CastString(b.fullName),
     email       |-> CastString(b.email),
     phoneNumber |-> CastString(b.phoneNumber),
     gender      |-> CastString(b.gender),
     dateOfBirth |-> CastString(b.dateOfBirth),
     address     |-> CastString(b.address),
     password    |-> CastString(b.password),
     latitude    |-> CastNumber(b.latitude),
     longitude   |-> CastNumber(b.longitude)]

\* the validation save() runs first: every path is required, the two
\* coordinates must cast to a number
SchemaAccepts(b) ==
    /\ \A f \in {"fullName", "email", "phoneNumber", "gender",
                 "dateOfBirth", "address", "password"} :
          b[f].t # "undefined" /\ CastString(b[f]) # << >>
    /\ CanCastNumber(b.latitude)
    /\ CanCastNumber(b.longitude)

NoCustomer ==
    [fullName |-> << >>, email |-> << >>, phoneNumber |-> << >>,
     gender |-> << >>, dateOfBirth |-> << >>, address |-> << >>,
     password |-> << >>, latitude |-> 0, longitude |-> 0]

\* a faulty Persist: an insert that refuses a phone number already stored
PersistUnique(st, doc) ==
    IF \E i \in 1..Len(st) : st[i].phoneNumber = doc.phoneNumber
    THEN st ELSE Append(st, doc)

\* customer.save() resolving: one more document in the collection
Persist(st, doc) == Append(st, doc)

\* a faulty FindOne: a match on a leading part of the stored number
FindOnePrefix(st, p) ==
    LET hits == {i \in 1..Len(st) :
                    /\ Len(p) <= Len(st[i].phoneNumber)
                    /\ SubSeq(st[i].phoneNumber, 1, Len(p)) = p}
    IN IF hits = {} THEN 0 ELSE CHOOSE i \in hits : \A j \in hits : i <= j

\* Customer.findOne({ phoneNumber }) : the first document whose phoneNumber
\* is the parameter, 0 for null
FindOne(st, p) ==
    LET hits == {i \in 1..Len(st) : st[i].phoneNumber = p}
    IN IF hits = {} THEN 0 ELSE CHOOSE i \in hits : \A j \in hits : i <= j

-----------------------------------------------------------------------------
(* Responses *)

NoResponse == [status |-> 0, text |-> << >>, customer |-> NoCustomer]
BadRequest(reason) == [status |-> 400, text |-> << reason >>, customer |-> NoCustomer]
NotFound == [status |-> 404, text |-> << "Customer not found" >>, customer |-> NoCustomer]
Ok(doc) == [status |-> 200, text |-> << >>, customer |-> doc]
Created(msg) == [status |-> 201, text |-> << msg >>, customer |-> NoCustomer]
ServerError(detail) ==
    [status |-> 500, text |-> << "Server error: ", detail >>, customer |-> NoCustomer]

Registered == "Customer registered successfully"
RegisteredSent == "Customer registered successfully and confirmation email sent"
RegisteredNotSent ==
    "Customer registered successfully, but failed to send confirmation email"
SendFailed == "Failed to send confirmation email"
SchemaFailure == "Customer validation failed"
StoreFailure == "database error"

Variants == {"none", "sendgrid", "nodemailer"}

\* SendGrid variant: sendConfirmationEmail catches the failure and returns
\* { error }, and the handler answers 201 with one of two messages
RespondAfterSendGrid(ok) ==
    IF ok THEN Created(RegisteredSent) ELSE Created(RegisteredNotSent)

\* Nodemailer variant: sendConfirmationEmail rethrows the failure, which
\* lands in the handler's catch
RespondAfterNodemailer(ok) ==
    IF ok THEN Created(RegisteredSent) ELSE ServerError(SendFailed)

\* the response once sendConfirmationEmail has settled
RespondAfterSend(v, ok) ==
    IF v = "sendgrid" THEN RespondAfterSendGrid(ok) ELSE RespondAfterNodemailer(ok)

-----------------------------------------------------------------------------
(* Request bodies *)

PhoneA == Rep("1", PhoneDigits)
PhoneB == Rep("2", PhoneDigits)

\* the spec's end-to-end payload, shortened: one registrant, valid in every rule
BaseBody ==
    [fullName        |-> JStr(<< "J" >>),
     email           |-> JStr(<< "j", "@", "e", ".", "c" >>),
     phoneNumber     |-> JStr(PhoneA),
     gender          |-> JStr(<< "F" >>),
     dateOfBirth     |-> JStr(<< "1", "9", "9", "0" >>),
     address         |-> JStr(<< "M" >>),
     password        |-> JStr(Rep("s", MinPasswordLength)),
     confirmPassword |-> JStr(Rep("s", MinPasswordLength)),
     latitude        |-> JNum(12),
     longitude       |-> JNum(56)]

NoBody ==
    [f \in {"fullName", "email", "phoneNumber", "gender", "dateOfBirth",
            "address", "password", "confirmPassword", "latitude", "longitude"}
        |-> Undefined]

ShortPassword == JStr(Rep("s", MinPasswordLength - 1))
OtherShortPassword == JStr(Rep("t", MinPasswordLength - 1))
OtherPassword == JStr(Rep("t", MinPasswordLength))
DigitsPassword == JNum(12345)

\* the bodies the registration requests of the workflow draw from
Bodies ==
    { BaseBody,
      [BaseBody EXCEPT !.phoneNumber = JStr(PhoneB)],
      [BaseBody EXCEPT !.latitude = JNum(0)],
      [BaseBody EXCEPT !.longitude = JNum(0)],
      [BaseBody EXCEPT !.fullName = Undefined],
      [BaseBody EXCEPT !.email = JStr(<< "f", "@", "b" >>)],
      [BaseBody EXCEPT !.phoneNumber = JStr(Rep("1", PhoneDigits - 1))],
      [BaseBody EXCEPT !.confirmPassword = OtherPassword],
      [BaseBody EXCEPT !.password = ShortPassword, !.confirmPassword = ShortPassword],
      [BaseBody EXCEPT !.password = ShortPassword, !.confirmPassword = OtherShortPassword],
      [BaseBody EXCEPT !.password = DigitsPassword, !.confirmPassword = DigitsPassword],
      [BaseBody EXCEPT !.latitude = JStr(<< "n" >>)] }

\* the :phoneNumber parameters the lookups draw from
Phones == { PhoneA, PhoneB, Rep("1", PhoneDigits - 1) }

-----------------------------------------------------------------------------
(* The requests *)

Reqs == 1..MaxReqs

Idle ==
    [kind |-> "none", pc |-> "idle", body |-> NoBody, phone |-> << >>,
     saveCalls |-> 0, sendCalls |-> 0, saveResult |-> "none",
     sendResult |-> "none", findResult |-> "none", resp |-> NoResponse]

\* requests are numbered in the order they arrive
Arrives(r) == req[r].pc = "idle" /\ \A q \in 1..(r - 1) : req[q].pc # "idle"

\* a faulty PostStart: a validation branch without its return, the
\* handler goes on to customer.save()
PostStartNoReturn(r, b) ==
    /\ Arrives(r)
    /\ req' = [req EXCEPT ![r] =
                 [@ EXCEPT !.kind = "post", !.body = b, !.pc = "saving",
                           !.saveCalls = @ + 1,
                           !.resp = IF Validate(b) # Valid
                                    THEN BadRequest(Validate(b)) ELSE NoResponse]]
    /\ UNCHANGED << variant, store, input, result >>

\* a faulty PostStart: the email is sent without awaiting the save
PostStartParallelSend(r, b) ==
    /\ Arrives(r)
    /\ req' = [req EXCEPT ![r] =
                 IF Validate(b) # Valid
                 THEN [@ EXCEPT !.kind = "post", !.body = b, !.pc = "done",
                                !.resp = BadRequest(Validate(b))]
                 ELSE [@ EXCEPT !.kind = "post", !.body = b, !.pc = "saving",
                                !.saveCalls = @ + 1,
                                !.sendCalls = IF variant = "none" THEN @ ELSE @ + 1]]
    /\ UNCHANGED << variant, store, input, result >>

\* app.post('/api/customers') up to its first await: the validations, then
\* new Customer and the call of customer.save()
PostStart(r, b) ==
    /\ Arrives(r)
    /\ req' = [req EXCEPT ![r] =
                 IF Validate(b) # Valid
                 THEN [@ EXCEPT !.kind = "post", !.body = b, !.pc = "done",
                                !.resp = BadRequest(Validate(b))]
                 ELSE [@ EXCEPT !.kind = "post", !.body = b, !.pc = "saving",
                                !.saveCalls = @ + 1]]
    /\ UNCHANGED << variant, store, input, result >>

\* a faulty SaveDone: the rejection of save() is swallowed and the
\* handler goes on as after a success
SaveDoneIgnoresFailure(r, ok) ==
    /\ req[r].pc = "saving"
    /\ LET saved == ok /\ SchemaAccepts(req[r].body)
       IN /\ store' = IF saved THEN Persist(store, NewCustomer(req[r].body)) ELSE store
          /\ req' = [req EXCEPT ![r] =
                IF variant = "none"
                THEN [@ EXCEPT !.saveResult = IF saved THEN "ok" ELSE "fail",
                               !.pc = "done", !.resp = Created(Registered)]
                ELSE [@ EXCEPT !.saveResult = IF saved THEN "ok" ELSE "fail",
                               !.pc = "sending", !.sendCalls = @ + 1]]
    /\ UNCHANGED << variant, input, result >>

\* await customer.save() settles.  Resolved: the document is in the
\* collection and the handler answers 201 (no email variant) or calls
\* sendConfirmationEmail.  Rejected (the schema's validation, or the
\* database): the catch answers 500.
SaveDone(r, ok) ==
    /\ req[r].pc = "saving"
    /\ LET saved == ok /\ SchemaAccepts(req[r].body)
       IN IF saved
          THEN /\ store' = Persist(store, NewCustomer(req[r].body))
               /\ req' = [req EXCEPT ![r] =
                     IF variant = "none"
                     THEN [@ EXCEPT !.saveResult = "ok", !.pc = "done",
                                    !.resp = Created(Registered)]
                     ELSE [@ EXCEPT !.saveResult = "ok", !.pc = "sending",
                                    !.sendCalls = @ + 1]]
          ELSE /\ store' = store
               /\ req' = [req EXCEPT ![r] =
                     [@ EXCEPT !.saveResult = "fail", !.pc = "done",
                               !.resp = ServerError(
                                   IF SchemaAccepts(req[r].body)
                                   THEN StoreFailure ELSE SchemaFailure)]]
    /\ UNCHANGED << variant, input, result >>

\* await sendConfirmationEmail(email, fullName) settles and the handler answers
SendDone(r, ok) ==
    /\ req[r].pc = "sending"
    /\ req' = [req EXCEPT ![r] =
                 [@ EXCEPT !.sendResult = IF ok THEN "ok" ELSE "fail",
                           !.pc = "done",
                           !.resp = RespondAfterSend(variant, ok)]]
    /\ UNCHANGED << variant, store, input, result >>

\* app.get('/api/customers/phone/:phoneNumber') up to its await
GetStart(r, p) ==
    /\ Arrives(r)
    /\ req' = [req EXCEPT ![r] = [@ EXCEPT !.kind = "get", !.phone = p, !.pc = "finding"]]
    /\ UNCHANGED << variant, store, input, result >>

\* await Customer.findOne(...) settles: 200 with the document, 404 for null,
\* 500 from the catch when the query is rejected
FindDone(r, ok) ==
    /\ req[r].pc = "finding"
    /\ LET i == FindOne(store, req[r].phone)
       IN req' = [req EXCEPT ![r] =
                    [@ EXCEPT !.pc = "done",
                              !.findResult = IF ok THEN "ok" ELSE "fail",
                              !.resp = IF ~ok THEN ServerError(StoreFailure)
                                       ELSE IF i = 0 THEN NotFound
                                       ELSE Ok(store[i])]]
    /\ UNCHANGED << variant, store, input, result >>

Init ==
    /\ variant \in Variants
    /\ store = << >>
    /\ req = [r \in Reqs |-> Idle]
    /\ input = BaseBody
    /\ result = "none"

Next ==
    \E r \in Reqs :
        \/ \E b \in Bodies : PostStart(r, b)
        \/ \E ok \in BOOLEAN : SaveDone(r, ok)
        \/ \E ok \in BOOLEAN : SendDone(r, ok)
        \/ \E p \in Phones : GetStart(r, p)
        \/ \E ok \in BOOLEAN : FindDone(r, ok)

Spec == Init /\ [][Next]_vars

-----------------------------------------------------------------------------
(* The validation rules on their own, over a wider set of bodies *)

EmailAlphabet == {"a", "@", ".", " "}
AllEmails == UNION {[1..k -> EmailAlphabet] : k \in 0..MaxEmailLen}

SomeEmails ==
    { BaseBody.email, JStr(<< "f", "@", "b" >>), JStr(<< >>), JNum(5), Undefined }
SomePhones ==
    { JStr(PhoneA), JStr(Rep("1", PhoneDigits - 1)), JStr(Rep("1", PhoneDigits + 1)),
      JStr([i \in 1..PhoneDigits |-> IF i = 1 THEN "a" ELSE "1"]),
      JNum(1234567890), JStr(<< >>) }
PasswordPairs ==
    { << p, c >> : p \in { BaseBody.password, ShortPassword, DigitsPassword,
                           JStr(<< >>), Undefined },
                   c \in { BaseBody.password, OtherPassword, ShortPassword,
                           OtherShortPassword, DigitsPassword, Undefined } }
SomeCoordinates == { JNum(12), JNum(0), Undefined, JStr(<< "0" >>) }
RequiredFields ==
    {"fullName", "email", "phoneNumber", "gender", "dateOfBirth", "address",
     "password", "latitude", "longitude"}

ValidationBodies ==
    {[BaseBody EXCEPT !.email = JStr(e)] : e \in AllEmails}
    \cup {[BaseBody EXCEPT ![f] = v] :
             f \in RequiredFields, v \in {Undefined, JStr(<< >>), JNum(0)}}
    \cup {[BaseBody EXCEPT !.email = e, !.phoneNumber = p, !.password = pw[1],
                           !.confirmPassword = pw[2], !.latitude = la] :
             e \in SomeEmails, p \in SomePhones, pw \in PasswordPairs,
             la \in SomeCoordinates}

InitValidation ==
    /\ variant = "none"
    /\ store = << >>
    /\ req = [r \in Reqs |-> Idle]
    /\ input \in ValidationBodies
    /\ result = "pending"

\* the validations of the handler applied to the body
ValidateStep ==
    /\ result = "pending"
    /\ result' = Validate(input)
    /\ UNCHANGED << variant, store, req, input >>

NextValidation == ValidateStep

SpecValidation == InitValidation /\ [][NextValidation]_vars

-----------------------------------------------------------------------------
(* Properties *)

Posts == {r \in Reqs : req[r].kind = "post"}
Gets == {r \in Reqs : req[r].kind = "get"}
Saved == {r \in Reqs : req[r].saveResult = "ok"}

\* the collection holds one document per resolved save and nothing else
StoreHoldsTheSavedOnly ==
    /\ Len(store) = Cardinality(Saved)
    /\ \A r \in Saved :
          Cardinality({i \in 1..Len(store) : store[i] = NewCustomer(req[r].body)})
            = Cardinality({q \in Saved : NewCustomer(req[q].body) = NewCustomer(req[r].body)})

\* C1: whenever the save of a registration has succeeded, the request is
\* answered 201, whether the confirmation email was sent or failed; a
\* failed send never becomes a 500.
NotificationFailureNeverEscalated ==
    \A r \in Posts :
        req[r].saveResult = "ok" /\ req[r].pc = "done" => req[r].resp.status = 201

\* the rules of the validation module, in the order the spec fixes
Rules == << MissingFields, InvalidEmail, InvalidPhone, PasswordMismatch, PasswordTooShort >>

Violates(rule, b) ==
    CASE rule = MissingFields -> \E f \in RequiredFields : Falsy(b[f])
      [] rule = InvalidEmail -> ~EmailRegex(ToString(b.email))
      [] rule = InvalidPhone -> ~PhoneRegex(ToString(b.phoneNumber))
      [] rule = PasswordMismatch -> StrictNotEqual(b.password, b.confirmPassword)
      [] rule = PasswordTooShort ->
            b.password.t = "string" /\ Len(b.password.s) < MinPasswordLength

FirstViolated(b) ==
    LET bad == {i \in 1..Len(Rules) : Violates(Rules[i], b)}
    IN IF bad = {} THEN Valid
       ELSE Rules[CHOOSE i \in bad : \A j \in bad : i <= j]

\* C2: the validation reports the earliest rule, in the order MissingFields,
\* InvalidEmail, InvalidPhone, PasswordMismatch, PasswordTooShort, that the
\* body violates, and valid only when it violates none.
ValidationReportsFirstFailingRule ==
    result # "pending" => result = FirstViolated(input)

\* a mismatched pair whose password is also too short, reported as a mismatch
MismatchedShortPairReported ==
    /\ result = PasswordMismatch
    /\ Violates(PasswordTooShort, input)

\* C3: a registration that fails validation is answered 400 with the reason,
\* and neither a save nor a send is made for it; the collection holds only
\* what the other requests saved.
ValidationFailureTouchesNothing ==
    /\ \A r \in Posts :
          Validate(req[r].body) # Valid =>
             /\ req[r].pc = "done"
             /\ req[r].resp = BadRequest(Validate(req[r].body))
             /\ req[r].saveCalls = 0
             /\ req[r].sendCalls = 0
             /\ req[r].saveResult = "none"
    /\ StoreHoldsTheSavedOnly

\* a too-short password answered 400 while the collection is empty
ShortPasswordRejected ==
    \E r \in Posts :
        /\ req[r].resp = BadRequest(PasswordTooShort)
        /\ req[r].pc = "done"
        /\ store = << >>

\* C4: after a successful save the 201 response says whether the email was
\* sent: the "and confirmation email sent" message exactly when the send
\* succeeded, the "but failed to send" message exactly when it failed.
SuccessOutcomeTellsEmailResult ==
    \A r \in Posts :
        req[r].saveResult = "ok" /\ req[r].pc = "done" =>
            /\ req[r].sendResult = "ok" <=> req[r].resp = Created(RegisteredSent)
            /\ req[r].sendResult = "fail" <=> req[r].resp = Created(RegisteredNotSent)

\* C5: a registration whose save fails is answered 500 "Server error: ...",
\* no send is attempted for it, and no document of it is in the collection.
PersistenceFailureIsServerError ==
    /\ \A r \in Posts :
          req[r].saveResult = "fail" =>
             /\ req[r].pc = "done"
             /\ req[r].resp.status = 500
             /\ Len(req[r].resp.text) = 2
             /\ req[r].resp.text[1] = "Server error: "
             /\ req[r].sendCalls = 0
             /\ req[r].sendResult = "none"
    /\ StoreHoldsTheSavedOnly

\* a valid registration whose database write was rejected
DatabaseRejectedSave ==
    \E r \in Posts :
        /\ req[r].saveResult = "fail"
        /\ req[r].resp = ServerError(StoreFailure)

\* C6: a request makes at most one save and at most one send, and a send
\* only once its own save has resolved.
OneWriteThenOneSend ==
    \A r \in Reqs :
        /\ req[r].saveCalls <= 1
        /\ req[r].sendCalls <= 1
        /\ req[r].sendCalls > 0 => req[r].saveCalls = 1 /\ req[r].saveResult = "ok"
        /\ req[r].pc = "saving" => req[r].sendCalls = 0

\* a request whose email is on its way after its save
SendIssuedAfterSave ==
    \E r \in Posts :
        /\ req[r].pc = "sending"
        /\ req[r].saveCalls = 1
        /\ req[r].sendCalls = 1

Hits(st, p) == {i \in 1..Len(st) : st[i].phoneNumber = p}

LookupFrame(r) ==
    /\ store' = store
    /\ \A q \in Reqs : req'[q].sendCalls = req[q].sendCalls
                        /\ req'[q].saveCalls = req[q].saveCalls

LookupAnswer(r) ==
    /\ Hits(store, req[r].phone) # {} =>
          /\ req'[r].resp.status = 200
          /\ req'[r].resp.customer.phoneNumber = req[r].phone
          /\ \E i \in Hits(store, req[r].phone) : req'[r].resp = Ok(store[i])
    /\ Hits(store, req[r].phone) = {} => req'[r].resp = NotFound

LookupSettles(r) == req[r].pc = "finding" /\ req'[r].pc = "done"

\* C7 as stated: a lookup answers 200 with a stored customer of exactly that
\* phone number whenever one exists and 404 "Customer not found" whenever
\* none does, and changes neither the collection nor any email.
LookupAlwaysAnswersFromStore ==
    [][\A r \in Reqs : LookupSettles(r) => LookupAnswer(r) /\ LookupFrame(r)]_vars

\* C7 amended: when the findOne query resolves, the lookup answers 200 with
\* a stored customer of exactly that phone number if one exists and 404
\* otherwise; when the query is rejected it answers 500 "Server error: ...";
\* in every case the collection is unchanged and no email is sent.
LookupAnswersFromStoreUnlessQueryFails ==
    [][\A r \in Reqs : LookupSettles(r) =>
          /\ req'[r].findResult = "ok" => LookupAnswer(r)
          /\ req'[r].findResult # "ok" => req'[r].resp = ServerError(StoreFailure)
          /\ LookupFrame(r)]_vars

\* a lookup answered with a stored customer of the phone number asked for
LookupFound ==
    \E r \in Gets :
        /\ req[r].resp.status = 200
        /\ req[r].resp.customer.phoneNumber = req[r].phone
        /\ \E i \in 1..Len(store) : store[i] = req[r].resp.customer

IsPrefix(s, t) == Len(s) <= Len(t) /\ SubSeq(t, 1, Len(s)) = s

DataModelInvariants(doc) ==
    /\ PhoneRegex(doc.phoneNumber)
    /\ EmailRegex(doc.email)
    /\ Len(doc.password) >= MinPasswordLength
    /\ doc.latitude \in Nat
    /\ doc.longitude \in Nat

\* C8: after every step, every stored customer satisfies the data-model
\* invariants (10-digit phone, local@domain.tld email, password of at least
\* 6 characters, numeric coordinates), and the step has neither changed nor
\* removed a stored customer.
StoredCustomersKeepDataModel ==
    [][/\ \A i \in 1..Len(store') : DataModelInvariants(store'[i])
       /\ IsPrefix(store, store')]_vars

\* the outcome of a settled registration as a function of its own body and
\* of how its own save and send ended
Outcome(v, b, saveEnded, sendEnded) ==
    IF Validate(b) # Valid THEN BadRequest(Validate(b))
    ELSE IF saveEnded = "fail"
         THEN ServerError(IF SchemaAccepts(b) THEN StoreFailure ELSE SchemaFailure)
    ELSE IF v = "none" THEN Created(Registered)
    ELSE IF sendEnded = "ok" THEN Created(RegisteredSent)
    ELSE IF v = "sendgrid" THEN Created(RegisteredNotSent)
    ELSE ServerError(SendFailed)

\* C9: under every interleaving the answer to a registration is fixed by its
\* own body and its own save and send results, and every resolved save has
\* its own document in the collection, also when two registrations carry the
\* same phone number and email.
RegistrationsAreIndependent ==
    /\ \A r \in Posts :
          req[r].pc = "done" =>
             req[r].resp = Outcome(variant, req[r].body, req[r].saveResult,
                                   req[r].sendResult)
    /\ StoreHoldsTheSavedOnly

\* two registrations of one phone number and email, both answered 201 and
\* both stored
DuplicateRegistrationsBothStored ==
    \E r \in Posts : \E q \in Posts :
        /\ r # q
        /\ req[r].body.phoneNumber = req[q].body.phoneNumber
        /\ req[r].body.email = req[q].body.email
        /\ req[r].resp.status = 201
        /\ req[q].resp.status = 201
        /\ Len(store) = 2
        /\ store[1].phoneNumber = store[2].phoneNumber
        /\ store[1].email = store[2].email

OtherwiseValid(b) ==
    Validate([b EXCEPT !.latitude = BaseBody.latitude,
                       !.longitude = BaseBody.longitude]) = Valid

\* C10: a body valid in all else whose latitude or longitude is the number 0
\* is answered 400 "All fields are required", and nothing of it is saved.
ZeroCoordinateIsMissingField ==
    /\ \A r \in Posts :
          /\ OtherwiseValid(req[r].body)
          /\ req[r].body.latitude = JNum(0) \/ req[r].body.longitude = JNum(0)
          => /\ req[r].pc = "done"
             /\ req[r].resp = BadRequest(MissingFields)
             /\ req[r].saveCalls = 0
             /\ req[r].saveResult = "none"
    /\ StoreHoldsTheSavedOnly

\* a body with latitude 0, valid in all else, answered 400
ZeroLatitudeRejected ==
    \E r \in Posts :
        /\ req[r].body.latitude = JNum(0)
        /\ OtherwiseValid(req[r].body)
        /\ req[r].resp = BadRequest(MissingFields)

====
